---- MODULE Spec2Model ----
(***************************************************************************)
(* A7S: a Discord bot that polls the BattleMetrics status API for a        *)
(* configured list of servers, caches the latest status per server,       *)
(* mirrors each status into one chat message per server (create first,    *)
(* edit afterwards) and serves the cache over a small Express endpoint.   *)
(*                                                                         *)
(* The model follows src/a7.js.  Every await of the source is a point     *)
(* where one handler stops and another may run; the code between two      *)
(* awaits runs to completion on the single event loop and is one action.  *)
(* Timer periods and network latencies are not measured: a tick of either *)
(* timer may arrive while earlier passes are still suspended, as happens  *)
(* whenever an awaited operation outlasts the timer period.               *)
(***************************************************************************)
EXTENDS Integers, Sequences, FiniteSets, TLC

(***************************************************************************)
(* State.                                                                  *)
(***************************************************************************)
VARIABLES
  ready,            \* the client's 'ready' event has fired (the timers are set)
  channelCached,    \* client.channels.cache holds CHANNEL_ID
  statusCache,      \* statusCache: server id -> status record
  lastMessages,     \* lastMessages: server id -> Message object
  fetchPasses,      \* the invocations of fetchAndCacheStatuses
  updatePasses,     \* the invocations of updateChannel
  channelMessages,  \* the messages of the Discord channel; a message's id is its index
  httpResponse,     \* the response the Express server is sending, if any
  console,          \* the error line fetchAndCacheStatuses wrote to the console
                    \* in the last step, if any (line 103)
  call,             \* a call of fetchServerStatus checked alone
  card,             \* a status record and the card formatEmbed makes of it
  stamps            \* history of the cache: which request and which tick of the
                    \* refresh timer each entry comes from (recorded only when
                    \* the refresh of the cache is checked; no part of the program)

vars == <<ready, channelCached, statusCache, lastMessages, fetchPasses, updatePasses,
          channelMessages, httpResponse, console, call, card, stamps>>

(***************************************************************************)
(* Bounds of the model.                                                    *)
(***************************************************************************)
\* ticks of the two timers together (invocations of fetchAndCacheStatuses and
\* of updateChannel) in one run of the whole program; the run that follows the
\* age of what is rendered has one tick more
MaxTicks == 3
\* 429 responses in a row to one call of fetchServerStatus while the whole
\* program runs (the call is checked alone against any number of them)
MaxRateLimits == 1
\* player counts 0..MaxPlayerCount are drawn when a function is checked alone
MaxPlayerCount == 56

(***************************************************************************)
(* Program constants.                                                      *)
(***************************************************************************)
DefaultRetries == 3
DefaultDelay == 1000
SeedingThreshold == 55
HttpOk == 200
HttpTooManyRequests == 429
HttpNotFound == 404
HttpServerError == 500
\* a request that failed without a response (transport error): error.response
\* is undefined
NoResponse == 0

\* the configured identifiers SERVER_1_ID, SERVER_2_ID, ... in order
SERVER_IDS == <<"A", "B">>

Ids == {SERVER_IDS[k] : k \in DOMAIN SERVER_IDS}

\* the display name BattleMetrics reports for a server
NameOf(serverId) == "name-" \o serverId

(***************************************************************************)
(* JavaScript objects used as maps (lastMessages, statusCache): the keys   *)
(* in insertion order and the value of each key.                           *)
(***************************************************************************)
EmptyObject == [keys |-> <<>>, val |-> [k \in {} |-> 0]]

ObjHas(o, key) == key \in DOMAIN o.val

ObjSet(o, key, v) ==
  [keys |-> IF ObjHas(o, key) THEN o.keys ELSE Append(o.keys, key),
   val  |-> [k \in (DOMAIN o.val) \cup {key} |-> IF k = key THEN v ELSE o.val[k]]]

ObjectEntries(o) == [k \in DOMAIN o.keys |-> <<o.keys[k], o.val[o.keys[k]]>>]

\* null / undefined, and a present value, as a sequence of length 0 or 1
null == <<>>

Some(v) == <<v>>

(***************************************************************************)
(* The BattleMetrics API: the responses axios.get can end with.            *)
(***************************************************************************)
\* data.attributes of a well-formed body
Attributes(status, players, maxPlayers, name) ==
  [status |-> status, players |-> players, maxPlayers |-> maxPlayers, name |-> name]

\* a 2xx response with a well-formed body
OkResponse(attrs) == [status |-> HttpOk, data |-> Some(attrs)]

\* a 2xx response whose body has no data object
MalformedResponse == [status |-> HttpOk, data |-> null]

\* a 2xx response whose body has a data object without attributes: reading
\* serverData.attributes.status raises the same TypeError
NoAttributesResponse == [status |-> HttpOk, data |-> null, body |-> "data"]

\* a response with an error status, or no response at all
ErrorResponse(code) == [status |-> code, data |-> null]

\* a 429 response that carries a Retry-After header, in seconds
RateLimitedWithHint(seconds) ==
  [status |-> HttpTooManyRequests, data |-> null, retryAfter |-> seconds]

\* the bodies drawn while the whole program runs: the first server is offline
\* or full enough, every other one is online on either side of the threshold
SystemBodies(serverId) ==
  IF serverId = SERVER_IDS[1]
  THEN { Attributes("offline", 0, 100, NameOf(serverId)),
         Attributes("online", SeedingThreshold, 100, NameOf(serverId)) }
  ELSE { Attributes("online", SeedingThreshold - 1, 100, NameOf(serverId)),
         Attributes("online", SeedingThreshold, 100, NameOf(serverId)) }

SystemResponses(serverId, rateLimits) ==
  {OkResponse(a) : a \in SystemBodies(serverId)}
    \cup {MalformedResponse, ErrorResponse(HttpServerError), ErrorResponse(NoResponse)}
    \cup (IF rateLimits < MaxRateLimits THEN {ErrorResponse(HttpTooManyRequests)} ELSE {})

\* the bodies drawn when fetchServerStatus or formatEmbed is checked alone
AllBodies(serverId) ==
  { Attributes(s, n, 100, NameOf(serverId)) :
      s \in {"online", "offline", "dead"}, n \in 0..MaxPlayerCount }

\* the fields fetchServerStatus reads from data.attributes
AttributeNames == {"status", "players", "maxPlayers", "name"}

\* bodies whose attributes lack one of the fields
PartialBodies(serverId) ==
  LET attrs == Attributes("online", SeedingThreshold - 1, 100, NameOf(serverId))
  IN  { [k \in AttributeNames \ {missing} |-> attrs[k]] : missing \in AttributeNames }

\* the Retry-After values a rate-limited response may carry
RetryAfterHints == {1, 5}

AllResponses(serverId) ==
  {OkResponse(a) : a \in AllBodies(serverId) \cup PartialBodies(serverId)}
    \cup {MalformedResponse, NoAttributesResponse, ErrorResponse(HttpTooManyRequests),
          ErrorResponse(HttpNotFound), ErrorResponse(HttpServerError),
          ErrorResponse(NoResponse)}
    \cup {RateLimitedWithHint(seconds) : seconds \in RetryAfterHints}

(***************************************************************************)
(* fetchServerStatus(serverId, retries = 3, delay = 1000)                  *)
(*                                                                         *)
(* One call, its recursive retries included, is a frame:                   *)
(*   pc        "request" (axios.get outstanding), "sleep" (setTimeout      *)
(*             outstanding), "returned", or "idle" (no call)               *)
(*   retries, delay   the parameters of the innermost call                 *)
(*   result    the value returned: null or the status record               *)
(*   responses the responses received, in order                            *)
(*   issued    how many requests were issued                               *)
(*   waits     the delay of every setTimeout, in order                     *)
(***************************************************************************)
IdleCall ==
  [pc |-> "idle", serverId |-> "", retries |-> 0, delay |-> 0, result |-> null,
   responses |-> <<>>, issued |-> 0, waits |-> <<>>]

\* the call is entered and axios.get is issued
CallStart(serverId, retries, delay) ==
  [pc |-> "request", serverId |-> serverId, retries |-> retries, delay |-> delay,
   result |-> null, responses |-> <<>>, issued |-> 1, waits |-> <<>>]

\* lines 32-44: the status record made from data.attributes.  Reading a field
\* the attributes lack gives undefined and raises nothing: undefined === 'online'
\* is false, and a property that holds undefined is left out of the record.
ParseStatus(attrs) ==
  LET Has(k) == k \in DOMAIN attrs
      keys == {"isOnline"}
                \cup (IF Has("players") THEN {"playerCount"} ELSE {})
                \cup (IF Has("maxPlayers") THEN {"maxPlayers"} ELSE {})
                \cup (IF Has("name") THEN {"serverName"} ELSE {})
  IN  [k \in keys |->
         CASE k = "isOnline" -> (Has("status") /\ attrs.status = "online")
           [] k = "playerCount" -> attrs.players
           [] k = "maxPlayers" -> attrs.maxPlayers
           [] k = "serverName" -> attrs.name]

\* a variant of CallCatch that retries once more than the budget allows
CallCatch_OneMore(f, hasResponse, status) ==
  IF hasResponse /\ status = HttpTooManyRequests /\ f.retries >= 0
  THEN [f EXCEPT !.pc = "sleep", !.waits = Append(@, f.delay)]
  ELSE [f EXCEPT !.pc = "returned", !.result = null]

\* a variant of CallCatch that retries after every error response
CallCatch_AnyStatus(f, hasResponse, status) ==
  IF hasResponse /\ f.retries > 0
  THEN [f EXCEPT !.pc = "sleep", !.waits = Append(@, f.delay)]
  ELSE [f EXCEPT !.pc = "returned", !.result = null]

\* a variant of CallCatch that waits for the Retry-After of the response when
\* it carries one
CallCatch_PreferHint(f, hasResponse, status) ==
  IF hasResponse /\ status = HttpTooManyRequests /\ f.retries > 0
  THEN LET r == f.responses[Len(f.responses)]
           wait == IF "retryAfter" \in DOMAIN r THEN r.retryAfter * 1000 ELSE f.delay
       IN  [f EXCEPT !.pc = "sleep", !.waits = Append(@, wait)]
  ELSE [f EXCEPT !.pc = "returned", !.result = null]

\* the try block threw: axios rejected (error.response is defined iff a
\* response arrived) or reading the body raised a TypeError
CallCatch(f, hasResponse, status) ==
  IF hasResponse /\ status = HttpTooManyRequests /\ f.retries > 0
  THEN [f EXCEPT !.pc = "sleep", !.waits = Append(@, f.delay)]
  ELSE [f EXCEPT !.pc = "returned", !.result = null]

\* axios.get settles with response r
CallOnResponse(f, r) ==
  LET g == [f EXCEPT !.responses = Append(@, r)]
  IN  IF r.status = HttpOk
      THEN IF r.data # null
           THEN [g EXCEPT !.pc = "returned", !.result = Some(ParseStatus(r.data[1]))]
           ELSE CallCatch(g, FALSE, r.status)
      ELSE CallCatch(g, r.status # NoResponse, r.status)

\* a variant of CallOnTimer that retries with the same delay
CallOnTimer_SameDelay(f) ==
  [f EXCEPT !.pc = "request", !.retries = f.retries - 1, !.issued = @ + 1]

\* the setTimeout of line 48 fires: the recursive call of line 49 issues the
\* next request
CallOnTimer(f) ==
  [f EXCEPT !.pc = "request", !.retries = f.retries - 1, !.delay = f.delay * 2,
            !.issued = @ + 1]

(***************************************************************************)
(* formatEmbed(serverName, status): the card of a status record.  The      *)
(* template strings are kept as the sequence of their pieces; the          *)
(* timestamp (new Date()) is left out, no clock being modelled.            *)
(***************************************************************************)
ColorRed == 16711680
ColorPurple == 8388736
ColorGreen == 65280

\* a variant of Tier that counts the threshold itself as seeding
Tier_Inclusive(status) ==
  IF ~status.isOnline
  THEN [circleEmoji |-> "red-circle", statusText |-> "Offline", embedColor |-> ColorRed]
  ELSE IF status.playerCount <= SeedingThreshold
  THEN [circleEmoji |-> "purple-circle", statusText |-> "Seeding",
        embedColor |-> ColorPurple]
  ELSE [circleEmoji |-> "green-circle", statusText |-> "Online",
        embedColor |-> ColorGreen]

\* lines 63-75: the marker, label and colour of a status
Tier(status) ==
  IF ~status.isOnline
  THEN [circleEmoji |-> "red-circle", statusText |-> "Offline", embedColor |-> ColorRed]
  ELSE IF status.playerCount < SeedingThreshold
  THEN [circleEmoji |-> "purple-circle", statusText |-> "Seeding",
        embedColor |-> ColorPurple]
  ELSE [circleEmoji |-> "green-circle", statusText |-> "Online",
        embedColor |-> ColorGreen]

formatEmbed(serverName, status) ==
  LET tier == Tier(status)
  IN  [title |-> <<tier.circleEmoji, " ", tier.statusText, " | ", serverName>>,
       description |-> <<"**Players:**\n\n**", ToString(status.playerCount), " / ",
                         ToString(status.maxPlayers), "**">>,
       color |-> tier.embedColor,
       thumbnail |-> "https://i.ibb.co/sp9fyrSv/A7.png",
       footer |-> "Powered by A7madShooter"]

(***************************************************************************)
(* The Express routes.  A response is its path, HTTP status and JSON body. *)
(***************************************************************************)
\* a variant of RootStatusText that counts the threshold itself as seeding
RootStatusText_Inclusive(status) ==
  IF ~status.isOnline THEN "Offline"
  ELSE IF status.playerCount <= SeedingThreshold THEN "Seeding"
  ELSE "Online"

\* app.get('/'): one entry per key of the cache, in Object.entries order
RootStatusText(status) ==
  IF ~status.isOnline THEN "Offline"
  ELSE IF status.playerCount < SeedingThreshold THEN "Seeding"
  ELSE "Online"

RootEntry(entry) ==
  LET status == entry[2]
  IN  [serverName |-> status.serverName,
       status |-> RootStatusText(status),
       players |-> <<ToString(status.playerCount), "/", ToString(status.maxPlayers)>>]

RootHandler(cache) ==
  LET entries == ObjectEntries(cache)
  IN  [status |-> HttpOk,
       body |-> [message |-> "Server Statuses",
                 statuses |-> [k \in DOMAIN entries |-> RootEntry(entries[k])]]]

\* a variant of the health route that answers for the chat client
HealthHandler_WhenReady ==
  IF ready
  THEN [status |-> HttpOk, body |-> [status |-> "OK"]]
  ELSE [status |-> HttpServerError, body |-> [status |-> "DOWN"]]

\* app.get('/health')
HealthHandler == [status |-> HttpOk, body |-> [status |-> "OK"]]

\* no route matches: Express answers 404
NotFoundHandler(path) == [status |-> HttpNotFound, body |-> [error |-> <<"Cannot GET ", path>>]]

\* the paths a client asks for
RequestPaths == {"/", "/health", "/ping"}

Route(path, cache) ==
  LET res == CASE path = "/" -> RootHandler(cache)
               [] path = "/health" -> HealthHandler
               [] OTHER -> NotFoundHandler(path)
  IN  [path |-> path, status |-> res.status, body |-> res.body]

NoHttpResponse == [path |-> "", status |-> NoResponse, body |-> [none |-> TRUE]]

NoLog == [level |-> "", text |-> "", serverId |-> ""]

\* no history is recorded
NoStamps ==
  [request |-> [p \in 1..MaxTicks |-> 0],
   entry |-> [serverId \in Ids |-> [request |-> 0, ticks |-> 0]]]

IdleCard == [pc |-> "idle", status |-> null, embed |-> null]

\* the event loop is free to run a timer or an I/O callback: no Express handler
\* is writing a response
Free == httpResponse = NoHttpResponse

(***************************************************************************)
(* fetchAndCacheStatuses: one invocation.                                  *)
(*   pc      "idle" (its tick has not come), "running", "done"             *)
(*   i       the index in SERVER_IDS of the identifier being fetched       *)
(*   call    the frame of the awaited fetchServerStatus                    *)
(***************************************************************************)
IdleFetchPass == [pc |-> "idle", i |-> 0, call |-> IdleCall]

\* a variant of CacheAfter that stores whatever was returned
CacheAfter_StoreAny(cache, serverId, result) ==
  IF result # null
  THEN ObjSet(cache, serverId, result[1])
  ELSE [keys |-> SelectSeq(cache.keys, LAMBDA k : k # serverId),
        val |-> [k \in (DOMAIN cache.val) \ {serverId} |-> cache.val[k]]]

\* a variant of CacheAfter that keeps only the record stored last
CacheAfter_OnlyLatest(cache, serverId, result) ==
  IF result # null THEN ObjSet(EmptyObject, serverId, result[1]) ELSE cache

\* lines 99-104: the cache after fetchServerStatus returned result
CacheAfter(cache, serverId, result) ==
  IF result # null THEN ObjSet(cache, serverId, result[1]) ELSE cache

\* line 103: the error line the iteration writes to the console, if any
LogAfter(serverId, result) ==
  IF result # null
  THEN NoLog
  ELSE [level |-> "error", text |-> "Failed to fetch status for server",
        serverId |-> serverId]

\* the for loop reaches index i: it awaits the fetch of that identifier, or ends
FetchLoop(pass, i) ==
  IF i <= Len(SERVER_IDS)
  THEN [pass EXCEPT !.pc = "running", !.i = i,
                    !.call = CallStart(SERVER_IDS[i], DefaultRetries, DefaultDelay)]
  ELSE [pass EXCEPT !.pc = "done", !.i = i, !.call = IdleCall]

\* the passes start in the order of their ticks
NextIdle(passes) ==
  IF \E p \in DOMAIN passes : passes[p].pc = "idle"
  THEN CHOOSE p \in DOMAIN passes :
         passes[p].pc = "idle" /\ \A q \in DOMAIN passes : passes[q].pc = "idle" => p <= q
  ELSE 0

\* a variant of TimersSet in which the timers are set when the module loads
TimersSet_AtLoad == TRUE

\* lines 145-153: the two interval timers exist once 'ready' has fired
TimersSet == ready

\* the invocations that have begun
Started(passes) == {p \in DOMAIN passes : passes[p].pc # "idle"}

\* fewer than MaxTicks ticks of the two timers have fired
TickBudget ==
  Cardinality(Started(fetchPasses)) + Cardinality(Started(updatePasses)) < MaxTicks

\* setInterval(fetchAndCacheStatuses, 3000) fires
FetchTick ==
  /\ Free
  /\ TimersSet
  /\ NextIdle(fetchPasses) # 0
  /\ fetchPasses' = [fetchPasses EXCEPT ![NextIdle(fetchPasses)] = FetchLoop(@, 1)]
  /\ console' = NoLog
  /\ UNCHANGED <<httpResponse, ready, channelCached, statusCache, lastMessages, updatePasses,
                 channelMessages, call, card>>

\* the axios.get a pass awaits settles with response r
FetchResponse(p, r) ==
  /\ Free
  /\ fetchPasses[p].pc = "running"
  /\ fetchPasses[p].call.pc = "request"
  /\ LET pass == fetchPasses[p]
         f == CallOnResponse(pass.call, r)
     IN  IF f.pc = "returned"
         THEN /\ statusCache' = CacheAfter(statusCache, f.serverId, f.result)
              /\ fetchPasses' = [fetchPasses EXCEPT
                                   ![p] = FetchLoop(pass, pass.i + 1)]
              /\ console' = LogAfter(f.serverId, f.result)
         ELSE /\ statusCache' = statusCache
              /\ fetchPasses' = [fetchPasses EXCEPT ![p].call = f]
              /\ console' = NoLog
  /\ UNCHANGED <<httpResponse, ready, channelCached, lastMessages, updatePasses, channelMessages, call, card>>

\* the backoff timer a pass awaits fires
FetchTimer(p) ==
  /\ Free
  /\ fetchPasses[p].pc = "running"
  /\ fetchPasses[p].call.pc = "sleep"
  /\ fetchPasses' = [fetchPasses EXCEPT ![p].call = CallOnTimer(@)]
  /\ console' = NoLog
  /\ UNCHANGED <<httpResponse, ready, channelCached, statusCache, lastMessages, updatePasses,
                 channelMessages, call, card>>

(***************************************************************************)
(* updateChannel: one invocation.                                          *)
(*   pc      "idle" (its tick has not come), "send" (awaiting              *)
(*           channel.send), "fetchMsg" (awaiting channel.messages.fetch),  *)
(*           "edit" (awaiting message.edit), "done"                        *)
(*   i       the index in SERVER_IDS of the identifier being processed     *)
(*   embed   the embed made for it before the await                        *)
(*   msg     the id of the message being fetched or edited                 *)
(*   ops     the chat operations the pass issued, in order, each with the  *)
(*           identifier, the message id and how it ended                   *)
(*   alone   no earlier invocation was still running when this one began   *)
(***************************************************************************)
IdleUpdatePass ==
  [pc |-> "idle", i |-> 0, embed |-> null, msg |-> 0, ops |-> <<>>, alone |-> FALSE]

ChatOp(op, serverId, msg) == [op |-> op, serverId |-> serverId, msg |-> msg, res |-> "pending"]

\* the outcome of the operation the pass awaited is written to its last entry
Settle(pass, res, msg) ==
  [pass EXCEPT !.ops[Len(pass.ops)].res = res, !.ops[Len(pass.ops)].msg = msg]

\* a variant of HasHandle that never finds the stored message
HasHandle_Never(messages, serverId) == FALSE

\* line 124: if (lastMessages[serverId])
HasHandle(messages, serverId) == ObjHas(messages, serverId)

\* a variant of UpdateLoop that makes the embed once in a pass and uses it for
\* every identifier after the first
UpdateLoop_KeepsEmbed(pass, i, cache, messages) ==
  LET cached == {j \in i..Len(SERVER_IDS) : ObjHas(cache, SERVER_IDS[j])}
  IN  IF cached = {}
      THEN [pass EXCEPT !.pc = "done", !.i = Len(SERVER_IDS) + 1, !.embed = null,
                        !.msg = 0]
      ELSE LET j == CHOOSE k \in cached : \A l \in cached : k <= l
               serverId == SERVER_IDS[j]
               status == cache.val[serverId]
               embed == IF pass.embed # null THEN pass.embed[1]
                        ELSE formatEmbed(status.serverName, status)
           IN  IF HasHandle(messages, serverId)
               THEN [pass EXCEPT !.pc = "fetchMsg", !.i = j, !.embed = Some(embed),
                                 !.msg = messages.val[serverId].id,
                                 !.ops = Append(@, ChatOp("fetch", serverId,
                                                          messages.val[serverId].id))]
               ELSE [pass EXCEPT !.pc = "send", !.i = j, !.embed = Some(embed),
                                 !.msg = 0,
                                 !.ops = Append(@, ChatOp("create", serverId, 0))]

\* a variant of UpdateLoop that takes the last identifier with a cached status
\* first
UpdateLoop_LastFirst(pass, i, cache, messages) ==
  LET cached == {j \in i..Len(SERVER_IDS) : ObjHas(cache, SERVER_IDS[j])}
  IN  IF cached = {}
      THEN [pass EXCEPT !.pc = "done", !.i = Len(SERVER_IDS) + 1, !.embed = null,
                        !.msg = 0]
      ELSE LET j == CHOOSE k \in cached : \A l \in cached : k >= l
               serverId == SERVER_IDS[j]
               status == cache.val[serverId]
               embed == formatEmbed(status.serverName, status)
           IN  IF HasHandle(messages, serverId)
               THEN [pass EXCEPT !.pc = "fetchMsg", !.i = j, !.embed = Some(embed),
                                 !.msg = messages.val[serverId].id,
                                 !.ops = Append(@, ChatOp("fetch", serverId,
                                                          messages.val[serverId].id))]
               ELSE [pass EXCEPT !.pc = "send", !.i = j, !.embed = Some(embed),
                                 !.msg = 0,
                                 !.ops = Append(@, ChatOp("create", serverId, 0))]

\* lines 117-141 from index i to the next await: identifiers without a cached
\* status are skipped; for the first one with a status the embed is made and
\* either messages.fetch (a handle is stored) or channel.send is issued
UpdateLoop(pass, i, cache, messages) ==
  LET cached == {j \in i..Len(SERVER_IDS) : ObjHas(cache, SERVER_IDS[j])}
  IN  IF cached = {}
      THEN [pass EXCEPT !.pc = "done", !.i = Len(SERVER_IDS) + 1, !.embed = null,
                        !.msg = 0]
      ELSE LET j == CHOOSE k \in cached : \A l \in cached : k <= l
               serverId == SERVER_IDS[j]
               status == cache.val[serverId]
               embed == formatEmbed(status.serverName, status)
           IN  IF HasHandle(messages, serverId)
               THEN [pass EXCEPT !.pc = "fetchMsg", !.i = j, !.embed = Some(embed),
                                 !.msg = messages.val[serverId].id,
                                 !.ops = Append(@, ChatOp("fetch", serverId,
                                                          messages.val[serverId].id))]
               ELSE [pass EXCEPT !.pc = "send", !.i = j, !.embed = Some(embed),
                                 !.msg = 0,
                                 !.ops = Append(@, ChatOp("create", serverId, 0))]

\* a variant of Catch that gives the pass up
Catch_Abort(pass, cache, messages) ==
  [pass EXCEPT !.pc = "done", !.embed = null, !.msg = 0]

\* lines 135-137: the catch block logs the error and the loop goes on with the
\* next identifier
Catch(pass, cache, messages) == UpdateLoop(pass, pass.i + 1, cache, messages)

\* a variant of UpdateStart that goes on without the channel
UpdateStart_NoChannelCheck(pass, found, alone, cache, messages) ==
  UpdateLoop([pass EXCEPT !.alone = alone], 1, cache, messages)

\* lines 110-115 and the loop up to its first await
UpdateStart(pass, found, alone, cache, messages) ==
  IF ~found
  THEN [pass EXCEPT !.pc = "done", !.alone = alone]
  ELSE UpdateLoop([pass EXCEPT !.alone = alone], 1, cache, messages)

\* setInterval(updateChannel, 1000) fires
UpdateTick ==
  /\ Free
  /\ TimersSet
  /\ NextIdle(updatePasses) # 0
  /\ LET p == NextIdle(updatePasses)
         alone == \A q \in DOMAIN updatePasses : updatePasses[q].pc \in {"idle", "done"}
     IN  updatePasses' = [updatePasses EXCEPT
                            ![p] = UpdateStart(@, channelCached, alone, statusCache,
                                               lastMessages)]
  /\ console' = NoLog
  /\ UNCHANGED <<httpResponse, ready, channelCached, statusCache, lastMessages, fetchPasses,
                 channelMessages, call, card, stamps>>

\* lines 131-132: channel.send settles; on success Discord holds a new message
\* and the pass stores it
SendResult(p, ok) ==
  /\ Free
  /\ updatePasses[p].pc = "send"
  /\ LET pass == updatePasses[p]
         serverId == SERVER_IDS[pass.i]
         id == Len(channelMessages) + 1
     IN  IF ok
         THEN /\ channelMessages' = Append(channelMessages, [embed |-> pass.embed[1]])
              /\ lastMessages' = ObjSet(lastMessages, serverId, [id |-> id])
              /\ updatePasses' = [updatePasses EXCEPT
                                    ![p] = UpdateLoop(Settle(pass, "ok", id), pass.i + 1,
                                                      statusCache, lastMessages')]
         ELSE /\ channelMessages' = channelMessages
              /\ lastMessages' = lastMessages
              /\ updatePasses' = [updatePasses EXCEPT
                                    ![p] = Catch(Settle(pass, "fail", 0), statusCache,
                                                 lastMessages)]
  /\ console' = NoLog
  /\ UNCHANGED <<httpResponse, ready, channelCached, statusCache, fetchPasses, call, card, stamps>>

\* line 126: channel.messages.fetch settles; on success message.edit is issued
\* on the fetched message
FetchMsgResult(p, ok) ==
  /\ Free
  /\ updatePasses[p].pc = "fetchMsg"
  /\ LET pass == updatePasses[p]
         serverId == SERVER_IDS[pass.i]
         settled == Settle(pass, IF ok THEN "ok" ELSE "fail", pass.msg)
     IN  IF ok
         THEN updatePasses' = [updatePasses EXCEPT
                                 ![p] = [settled EXCEPT
                                           !.pc = "edit",
                                           !.ops = Append(@, ChatOp("edit", serverId,
                                                                    pass.msg))]]
         ELSE updatePasses' = [updatePasses EXCEPT
                                 ![p] = Catch(settled, statusCache, lastMessages)]
  /\ console' = NoLog
  /\ UNCHANGED <<httpResponse, ready, channelCached, statusCache, lastMessages, fetchPasses,
                 channelMessages, call, card, stamps>>

\* line 127: message.edit settles; on success the message shows the embed
EditResult(p, ok) ==
  /\ Free
  /\ updatePasses[p].pc = "edit"
  /\ LET pass == updatePasses[p]
         settled == Settle(pass, IF ok THEN "ok" ELSE "fail", pass.msg)
     IN  /\ channelMessages' = IF ok
                               THEN [channelMessages EXCEPT ![pass.msg].embed = pass.embed[1]]
                               ELSE channelMessages
         /\ updatePasses' = [updatePasses EXCEPT
                               ![p] = IF ok
                                      THEN UpdateLoop(settled, pass.i + 1, statusCache,
                                                      lastMessages)
                                      ELSE Catch(settled, statusCache, lastMessages)]
  /\ console' = NoLog
  /\ UNCHANGED <<httpResponse, ready, channelCached, statusCache, lastMessages, fetchPasses, call, card, stamps>>

(***************************************************************************)
(* The client and the Express server.                                      *)
(***************************************************************************)
\* client.once('ready'): both timers are set
ClientReady ==
  /\ Free
  /\ ~ready
  /\ ready' = TRUE
  /\ console' = NoLog
  /\ UNCHANGED <<httpResponse, channelCached, statusCache, lastMessages, fetchPasses, updatePasses,
                 channelMessages, call, card, stamps>>

\* a GET request is routed and answered; app.listen runs at load, before 'ready'.
\* The handler writes the whole response before the event loop runs anything
\* else, so the response is on its way out while the program stands still.
HttpGet(path) ==
  /\ httpResponse = NoHttpResponse
  /\ httpResponse' = Route(path, statusCache)
  /\ console' = NoLog
  /\ UNCHANGED <<ready, channelCached, statusCache, lastMessages, fetchPasses,
                 updatePasses, channelMessages, call, card, stamps>>

\* the response has left
HttpSent ==
  /\ httpResponse # NoHttpResponse
  /\ httpResponse' = NoHttpResponse
  /\ console' = NoLog
  /\ UNCHANGED <<ready, channelCached, statusCache, lastMessages, fetchPasses,
                 updatePasses, channelMessages, call, card, stamps>>

(***************************************************************************)
(* The program.                                                            *)
(***************************************************************************)
Init ==
  /\ ready = FALSE
  /\ channelCached \in BOOLEAN
  /\ statusCache = EmptyObject
  /\ lastMessages = EmptyObject
  /\ fetchPasses = [p \in 1..MaxTicks |-> IdleFetchPass]
  /\ updatePasses = [p \in 1..MaxTicks |-> IdleUpdatePass]
  /\ channelMessages = <<>>
  /\ httpResponse = NoHttpResponse
  /\ console = NoLog
  /\ call = IdleCall
  /\ card = IdleCard
  /\ stamps = NoStamps

Next ==
  \/ \E path \in RequestPaths : HttpGet(path)
  \/ HttpSent
  \/ ClientReady
  \/ TickBudget /\ FetchTick /\ UNCHANGED stamps
  \/ \E p \in DOMAIN fetchPasses :
       \E r \in SystemResponses(fetchPasses[p].call.serverId,
                                Len(fetchPasses[p].call.waits)) :
         FetchResponse(p, r) /\ UNCHANGED stamps
  \/ \E p \in DOMAIN fetchPasses : FetchTimer(p) /\ UNCHANGED stamps
  \/ TickBudget /\ UpdateTick
  \/ \E p \in DOMAIN updatePasses : \E ok \in BOOLEAN : SendResult(p, ok)
  \/ \E p \in DOMAIN updatePasses : \E ok \in BOOLEAN : FetchMsgResult(p, ok)
  \/ \E p \in DOMAIN updatePasses : \E ok \in BOOLEAN : EditResult(p, ok)

Spec == Init /\ [][Next]_vars

(***************************************************************************)
(* fetchServerStatus alone: one call with the default parameters, against  *)
(* every sequence of responses.                                            *)
(***************************************************************************)
InitFetch ==
  /\ ready = FALSE
  /\ channelCached = FALSE
  /\ statusCache = EmptyObject
  /\ lastMessages = EmptyObject
  /\ fetchPasses = [p \in 1..MaxTicks |-> IdleFetchPass]
  /\ updatePasses = [p \in 1..MaxTicks |-> IdleUpdatePass]
  /\ channelMessages = <<>>
  /\ httpResponse = NoHttpResponse
  /\ console = NoLog
  /\ card = IdleCard
  /\ stamps = NoStamps
  /\ call \in {CallStart(serverId, DefaultRetries, DefaultDelay) : serverId \in Ids}

\* the outstanding axios.get settles with response r
CallResponse(r) ==
  /\ call.pc = "request"
  /\ call' = CallOnResponse(call, r)
  /\ UNCHANGED <<ready, channelCached, statusCache, lastMessages, fetchPasses,
                 updatePasses, channelMessages, httpResponse, console, card, stamps>>

\* the outstanding setTimeout fires
CallTimer ==
  /\ call.pc = "sleep"
  /\ call' = CallOnTimer(call)
  /\ UNCHANGED <<ready, channelCached, statusCache, lastMessages, fetchPasses,
                 updatePasses, channelMessages, httpResponse, console, card, stamps>>

NextFetch ==
  \/ \E r \in AllResponses(call.serverId) : CallResponse(r)
  \/ CallTimer

SpecFetch == InitFetch /\ [][NextFetch]_vars

\* every request settles and every timer fires
FairSpecFetch == SpecFetch /\ WF_vars(NextFetch)

(***************************************************************************)
(* formatEmbed alone: every status record fetchServerStatus can return.    *)
(***************************************************************************)
InitRender ==
  /\ ready = FALSE
  /\ channelCached = FALSE
  /\ statusCache = EmptyObject
  /\ lastMessages = EmptyObject
  /\ fetchPasses = [p \in 1..MaxTicks |-> IdleFetchPass]
  /\ updatePasses = [p \in 1..MaxTicks |-> IdleUpdatePass]
  /\ channelMessages = <<>>
  /\ httpResponse = NoHttpResponse
  /\ console = NoLog
  /\ call = IdleCall
  /\ stamps = NoStamps
  /\ card \in {[pc |-> "status", status |-> Some(ParseStatus(a)), embed |-> null] :
                 a \in UNION {AllBodies(serverId) : serverId \in Ids}}

\* line 121: const embed = formatEmbed(status.serverName, status)
Render ==
  /\ card.pc = "status"
  /\ card' = [card EXCEPT !.pc = "embed",
                          !.embed = Some(formatEmbed(card.status[1].serverName,
                                                     card.status[1]))]
  /\ UNCHANGED <<ready, channelCached, statusCache, lastMessages, fetchPasses,
                 updatePasses, channelMessages, httpResponse, console, call, stamps>>

NextRender == Render

SpecRender == InitRender /\ [][NextRender]_vars

(***************************************************************************)
(* The refresh of the cache with its history: the refresh timer of         *)
(* src/a7.js alone, every request numbered in the order of issue and every *)
(* cache entry stamped with the number of its request.                     *)
(***************************************************************************)
\* the numbers still in use: those of the requests outstanding and of the
\* entries of the cache
Numbers(st) ==
  {st.request[p] : p \in DOMAIN st.request} \cup {st.entry[serverId].request : serverId \in Ids}

\* pass p issues the next request: its number is above every number in use
Request(st, p) ==
  [st EXCEPT !.request[p] =
               1 + CHOOSE n \in Numbers(st) : \A m \in Numbers(st) : m <= n]

\* the entry of a record returned by a call is stamped with its request
Stored(st, p, f) ==
  IF f.result # null
  THEN [st EXCEPT !.entry[f.serverId].request = st.request[p]]
  ELSE st

\* the history after the request of pass p settled with response r
StampsAfter(p, r) ==
  LET f == CallOnResponse(fetchPasses[p].call, r)
  IN  IF f.pc # "returned"
      THEN [stamps EXCEPT !.request[p] = 0]
      ELSE IF fetchPasses[p].i < Len(SERVER_IDS)
      THEN Request(Stored(stamps, p, f), p)
      ELSE [Stored(stamps, p, f) EXCEPT !.request[p] = 0]

\* the responses drawn while the refresh is checked
RefreshResponses(serverId, rateLimits) ==
  {OkResponse(Attributes("online", SeedingThreshold, 100, NameOf(serverId))),
   ErrorResponse(HttpServerError)}
    \cup (IF rateLimits < MaxRateLimits THEN {ErrorResponse(HttpTooManyRequests)} ELSE {})

InitRefresh ==
  /\ ready = FALSE
  /\ channelCached = TRUE
  /\ statusCache = EmptyObject
  /\ lastMessages = EmptyObject
  /\ fetchPasses = [p \in 1..MaxTicks |-> IdleFetchPass]
  /\ updatePasses = [p \in 1..MaxTicks |-> IdleUpdatePass]
  /\ channelMessages = <<>>
  /\ httpResponse = NoHttpResponse
  /\ console = NoLog
  /\ call = IdleCall
  /\ card = IdleCard
  /\ stamps = NoStamps

NextRefresh ==
  \/ ClientReady
  \/ FetchTick /\ stamps' = Request(stamps, NextIdle(fetchPasses))
  \/ \E p \in DOMAIN fetchPasses :
       \E r \in RefreshResponses(fetchPasses[p].call.serverId,
                                 Len(fetchPasses[p].call.waits)) :
         FetchResponse(p, r) /\ stamps' = StampsAfter(p, r)
  \/ \E p \in DOMAIN fetchPasses : FetchTimer(p) /\ stamps' = Request(stamps, p)

SpecRefresh == InitRefresh /\ [][NextRefresh]_vars

(***************************************************************************)
(* The age of what is rendered: both timers of src/a7.js, without the      *)
(* Express server, every cache entry stamped with the number of ticks the  *)
(* refresh timer had fired when the entry was stored (requests are not     *)
(* numbered).  The two timers fire MaxTicks + 1 times together, each at    *)
(* most MaxTicks times; every request is answered with a record or with an *)
(* error, and every chat operation succeeds.                               *)
(***************************************************************************)
\* the entry of a record returned by a call is stamped with the ticks fired
Aged(st, f) ==
  IF f.result # null
  THEN [st EXCEPT !.entry[f.serverId].ticks = Cardinality(Started(fetchPasses))]
  ELSE st

\* fewer than MaxTicks + 1 ticks of the two timers have fired
AgeBudget ==
  Cardinality(Started(fetchPasses)) + Cardinality(Started(updatePasses)) < MaxTicks + 1

\* the responses drawn while the age is checked
AgeResponses(serverId) ==
  {OkResponse(Attributes("online", SeedingThreshold, 100, NameOf(serverId))),
   ErrorResponse(HttpServerError)}

NextAge ==
  \/ ClientReady
  \/ AgeBudget /\ FetchTick /\ UNCHANGED stamps
  \/ \E p \in DOMAIN fetchPasses :
       \E r \in AgeResponses(fetchPasses[p].call.serverId) :
         FetchResponse(p, r)
           /\ stamps' = Aged(stamps, CallOnResponse(fetchPasses[p].call, r))
  \/ AgeBudget /\ UpdateTick
  \/ \E p \in DOMAIN updatePasses : SendResult(p, TRUE)
  \/ \E p \in DOMAIN updatePasses : FetchMsgResult(p, TRUE)
  \/ \E p \in DOMAIN updatePasses : EditResult(p, TRUE)

SpecAge == InitRefresh /\ [][NextAge]_vars

(***************************************************************************)
(* The first program of src/unnamed/part_000 (lines 1-125), the coupled    *)
(* design: one timer, and updateChannel fetches the status of each         *)
(* identifier itself before it sends or edits.  fetchServerStatus has no   *)
(* retry there and no cache is kept.  A pass is                            *)
(*   pc      "idle", "status" (awaiting fetchServerStatus), "send",        *)
(*           "edit", "done"                                                *)
(*   i, embed, msg, ops   as in updateChannel above                        *)
(***************************************************************************)
IdleCoupledPass == [pc |-> "idle", i |-> 0, embed |-> null, msg |-> 0, ops |-> <<>>]

\* part_000 lines 26-46: the record of the body, or null on any error
CoupledFetchResult(r) ==
  IF r.status = HttpOk /\ r.data # null THEN Some(ParseStatus(r.data[1])) ELSE null

\* part_000 lines 49-83: the card, with the players on one line
CoupledFormatEmbed(serverName, status) ==
  [formatEmbed(serverName, status) EXCEPT
     !.description = <<"**Players:** ", ToString(status.playerCount), "/",
                       ToString(status.maxPlayers)>>]

\* the for loop reaches index i: it awaits the fetch of that identifier, or ends
CoupledLoop(pass, i) ==
  IF i <= Len(SERVER_IDS)
  THEN [pass EXCEPT !.pc = "status", !.i = i, !.embed = null, !.msg = 0]
  ELSE [pass EXCEPT !.pc = "done", !.i = i, !.embed = null, !.msg = 0]

\* part_000 lines 96-107: with a status, the stored Message object is edited
\* as it is, or a message is sent
CoupledReconcile(pass, result, messages) ==
  LET serverId == SERVER_IDS[pass.i]
      embed == CoupledFormatEmbed(result[1].serverName, result[1])
  IN  IF result = null
      THEN CoupledLoop(pass, pass.i + 1)
      ELSE IF HasHandle(messages, serverId)
      THEN [pass EXCEPT !.pc = "edit", !.embed = Some(embed),
                        !.msg = messages.val[serverId].id,
                        !.ops = Append(@, ChatOp("edit", serverId,
                                                 messages.val[serverId].id))]
      ELSE [pass EXCEPT !.pc = "send", !.embed = Some(embed), !.msg = 0,
                        !.ops = Append(@, ChatOp("create", serverId, 0))]

\* the responses drawn for the coupled program
CoupledResponses(serverId) ==
  {OkResponse(a) : a \in SystemBodies(serverId)} \cup {ErrorResponse(HttpServerError)}

\* part_000 line 121: setInterval(updateChannel, 5000) fires
CoupledTick ==
  /\ TimersSet
  /\ NextIdle(updatePasses) # 0
  /\ updatePasses' = [updatePasses EXCEPT
                        ![NextIdle(updatePasses)] =
                          IF channelCached THEN CoupledLoop(@, 1)
                          ELSE [@ EXCEPT !.pc = "done"]]
  /\ UNCHANGED <<ready, channelCached, statusCache, lastMessages, fetchPasses,
                 channelMessages, httpResponse, console, call, card, stamps>>

\* part_000 line 94: fetchServerStatus returns
CoupledStatus(p, r) ==
  /\ updatePasses[p].pc = "status"
  /\ updatePasses' = [updatePasses EXCEPT
                        ![p] = CoupledReconcile(@, CoupledFetchResult(r), lastMessages)]
  /\ UNCHANGED <<ready, channelCached, statusCache, lastMessages, fetchPasses,
                 channelMessages, httpResponse, console, call, card, stamps>>

\* part_000 line 105: channel.send settles and its message is stored
CoupledSendResult(p, ok) ==
  /\ updatePasses[p].pc = "send"
  /\ LET pass == updatePasses[p]
         serverId == SERVER_IDS[pass.i]
         id == Len(channelMessages) + 1
     IN  /\ channelMessages' = IF ok
                               THEN Append(channelMessages, [embed |-> pass.embed[1]])
                               ELSE channelMessages
         /\ lastMessages' = IF ok THEN ObjSet(lastMessages, serverId, [id |-> id])
                            ELSE lastMessages
         /\ updatePasses' = [updatePasses EXCEPT
                               ![p] = CoupledLoop(Settle(pass, IF ok THEN "ok" ELSE "fail",
                                                         IF ok THEN id ELSE 0),
                                                  pass.i + 1)]
  /\ UNCHANGED <<ready, channelCached, statusCache, fetchPasses, httpResponse, console,
                 call, card, stamps>>

\* part_000 line 102: the edit of the stored Message object settles
CoupledEditResult(p, ok) ==
  /\ updatePasses[p].pc = "edit"
  /\ LET pass == updatePasses[p]
     IN  /\ channelMessages' = IF ok
                               THEN [channelMessages EXCEPT ![pass.msg].embed = pass.embed[1]]
                               ELSE channelMessages
         /\ updatePasses' = [updatePasses EXCEPT
                               ![p] = CoupledLoop(Settle(pass, IF ok THEN "ok" ELSE "fail",
                                                         pass.msg),
                                                  pass.i + 1)]
  /\ UNCHANGED <<ready, channelCached, statusCache, lastMessages, fetchPasses,
                 httpResponse, console, call, card, stamps>>

InitCoupled ==
  /\ ready = FALSE
  /\ channelCached \in BOOLEAN
  /\ statusCache = EmptyObject
  /\ lastMessages = EmptyObject
  /\ fetchPasses = [p \in 1..MaxTicks |-> IdleFetchPass]
  /\ updatePasses = [p \in 1..MaxTicks |-> IdleCoupledPass]
  /\ channelMessages = <<>>
  /\ httpResponse = NoHttpResponse
  /\ console = NoLog
  /\ call = IdleCall
  /\ card = IdleCard
  /\ stamps = NoStamps

NextCoupled ==
  \/ ClientReady
  \/ CoupledTick
  \/ \E p \in {q \in DOMAIN updatePasses : updatePasses[q].pc = "status"} :
       \E r \in CoupledResponses(SERVER_IDS[updatePasses[p].i]) : CoupledStatus(p, r)
  \/ \E p \in DOMAIN updatePasses : \E ok \in BOOLEAN : CoupledSendResult(p, ok)
  \/ \E p \in DOMAIN updatePasses : \E ok \in BOOLEAN : CoupledEditResult(p, ok)

SpecCoupled == InitCoupled /\ [][NextCoupled]_vars

(***************************************************************************)
(* Properties.                                                             *)
(***************************************************************************)
IndexOf(serverId) == CHOOSE k \in DOMAIN SERVER_IDS : SERVER_IDS[k] = serverId

\* the chat operations pass p issued for an identifier, in order
OpsOf(p, serverId) == SelectSeq(updatePasses[p].ops, LAMBDA o : o.serverId = serverId)

\* pass p has left the iteration of an identifier behind
Past(p, serverId) ==
  \/ updatePasses[p].pc = "done"
  \/ updatePasses[p].pc # "idle" /\ updatePasses[p].i > IndexOf(serverId)

\* passes p and p + 1 ran one after the other, nothing else running meanwhile,
\* and p found a cached status and no handle for the identifier and created
\* its message
CreatedThenNext(p, serverId) ==
  /\ updatePasses[p].alone
  /\ updatePasses[p + 1].pc # "idle"
  /\ updatePasses[p + 1].alone
  /\ OpsOf(p, serverId) # <<>>
  /\ OpsOf(p, serverId)[1].op = "create"
  /\ OpsOf(p, serverId)[1].res = "ok"

\* C1: when two passes of updateChannel run one after the other and the
\* first creates the message of an identifier, the create is the only
\* operation the first pass issues for it and its handle is stored; the second
\* pass issues no create for it but fetches that message and, the fetch
\* succeeding, edits that same message.
C1_CreateThenEdit ==
  \A p \in 1..(MaxTicks - 1) : \A serverId \in Ids :
    CreatedThenNext(p, serverId) =>
      LET first == OpsOf(p, serverId)
          second == OpsOf(p + 1, serverId)
      IN  /\ Len(first) = 1
          /\ ObjHas(lastMessages, serverId)
          /\ lastMessages.val[serverId].id = first[1].msg
          /\ \A k \in DOMAIN second : second[k].op # "create"
          /\ Past(p + 1, serverId) => second # <<>>
          /\ second # <<>> =>
               /\ second[1].op = "fetch"
               /\ second[1].msg = first[1].msg
               /\ Len(second) <= 2
               /\ second[1].res = "ok" =>
                    /\ Len(second) = 2
                    /\ second[2].op = "edit"
                    /\ second[2].msg = first[1].msg
               /\ second[1].res = "fail" => Len(second) = 1

\* the second of two passes in a row has edited the message the first created
C1_Witness ==
  \E p \in 1..(MaxTicks - 1) : \E serverId \in Ids :
    /\ CreatedThenNext(p, serverId)
    /\ Len(OpsOf(p + 1, serverId)) = 2
    /\ OpsOf(p + 1, serverId)[2].op = "edit"
    /\ OpsOf(p + 1, serverId)[2].res = "ok"
    /\ OpsOf(p + 1, serverId)[2].msg = OpsOf(p, serverId)[1].msg

\* the creates that succeeded for an identifier, over all passes
Created(serverId) ==
  {<<p, k>> \in (DOMAIN updatePasses) \X (1..(2 * Len(SERVER_IDS))) :
     /\ k <= Len(updatePasses[p].ops)
     /\ updatePasses[p].ops[k].serverId = serverId
     /\ updatePasses[p].ops[k].op = "create"
     /\ updatePasses[p].ops[k].res = "ok"}

\* C2: under every interleaving of the passes, a chat message is created
\* successfully at most once per identifier.
C2_AtMostOneCreate == \A serverId \in Ids : Cardinality(Created(serverId)) <= 1

\* a pass of fetchAndCacheStatuses completes the iteration of an identifier
\* in this step
Completes(p, serverId) ==
  /\ fetchPasses[p].pc = "running"
  /\ SERVER_IDS[fetchPasses[p].i] = serverId
  /\ fetchPasses'[p].i = fetchPasses[p].i + 1

\* C3: when fetchServerStatus returns null for an identifier, the cache is
\* left as it was, and so is the listing of GET /; an identifier enters the
\* cache only when a fetch of it returns a record, and an identifier that is
\* not in the cache is not in the listing.
C3_FailureKeepsCache ==
  /\ [][ /\ console'.level = "error" =>
              /\ \E p \in DOMAIN fetchPasses : Completes(p, console'.serverId)
              /\ statusCache' = statusCache
              /\ RootHandler(statusCache') = RootHandler(statusCache)
         /\ \A serverId \in Ids :
              (ObjHas(statusCache', serverId) /\ ~ObjHas(statusCache, serverId)) =>
                /\ \E p \in DOMAIN fetchPasses : Completes(p, serverId)
                /\ console' = NoLog
       ]_vars
  /\ [](\A serverId \in Ids :
          ~ObjHas(statusCache, serverId) =>
            \A k \in DOMAIN RootHandler(statusCache).body.statuses :
              RootHandler(statusCache).body.statuses[k].serverName # NameOf(serverId))

\* a fetch has just failed for an identifier whose earlier record is still cached,
\* while another identifier has never been fetched successfully
C3_Witness ==
  /\ console.level = "error"
  /\ ObjHas(statusCache, console.serverId)
  /\ \E serverId \in Ids : ~ObjHas(statusCache, serverId)

\* the HTTP statuses of the responses a call received
Statuses(f) == [k \in DOMAIN f.responses |-> f.responses[k].status]

\* C4: after two 429 responses and then a 200 with a well-formed body, the call
\* has returned the status record of that body, having issued exactly 3
\* requests and waited 1000 and then 2000, each delay at least double the one
\* before.
C4_TwoRateLimitsThenOk ==
  ( /\ Statuses(call) = <<429, 429, 200>>
    /\ call.responses[3].data # null
    /\ AttributeNames \subseteq DOMAIN call.responses[3].data[1] ) =>
    LET attrs == call.responses[3].data[1]
    IN  /\ call.pc = "returned"
        /\ call.result # null
        /\ call.result[1].isOnline = (attrs.status = "online")
        /\ call.result[1].playerCount = attrs.players
        /\ call.result[1].maxPlayers = attrs.maxPlayers
        /\ call.result[1].serverName = attrs.name
        /\ call.issued = 3
        /\ call.waits = <<1000, 2000>>
        /\ \A k \in 2..Len(call.waits) : call.waits[k] >= 2 * call.waits[k - 1]

\* a call has returned an online record after 429, 429, 200
C4_Witness ==
  /\ Statuses(call) = <<429, 429, 200>>
  /\ call.pc = "returned"
  /\ call.result # null
  /\ call.result[1].isOnline

\* C5: a call issues at most 4 requests, every response received answers a
\* request issued, a call that saw nothing but 429 responses returns null after
\* the fourth, and every call returns.
C5_BoundedAndTerminates ==
  /\ [](/\ call.issued <= 4
        /\ Len(call.responses) <= call.issued
        /\ (call.pc = "returned" /\ \A k \in DOMAIN call.responses :
                                      call.responses[k].status = 429) =>
             (call.result = null /\ call.issued = 4 /\ Len(call.responses) = 4))
  /\ <>(call.pc = "returned")

\* a call has returned null after four 429 responses
C5_Witness ==
  /\ call.pc = "returned"
  /\ Statuses(call) = <<429, 429, 429, 429>>
  /\ call.result = null

\* C6: the card of a record is Offline and red iff the record is not online,
\* Seeding and purple iff it is online with fewer than 55 players, Online and
\* green otherwise.
C6_TierOfRecord ==
  card.pc = "embed" =>
    LET r == card.status[1]
        e == card.embed[1]
        label == e.title[3]
    IN  /\ label \in {"Offline", "Seeding", "Online"}
        /\ (label = "Offline") <=> ~r.isOnline
        /\ (label = "Seeding") <=> (r.isOnline /\ r.playerCount < 55)
        /\ (label = "Online") <=> (r.isOnline /\ r.playerCount >= 55)
        /\ (e.color = 16711680) <=> (label = "Offline")
        /\ (e.color = 8388736) <=> (label = "Seeding")
        /\ (e.color = 65280) <=> (label = "Online")
        /\ (e.title[1] = "red-circle") <=> (label = "Offline")
        /\ (e.title[1] = "purple-circle") <=> (label = "Seeding")
        /\ (e.title[1] = "green-circle") <=> (label = "Online")
        /\ (r.isOnline /\ r.playerCount = 54) => label = "Seeding"
        /\ (r.isOnline /\ r.playerCount = 55) => label = "Online"

\* an online record with 55 players has been rendered as Online
C6_Witness ==
  /\ card.pc = "embed"
  /\ card.status[1].isOnline
  /\ card.status[1].playerCount = 55
  /\ card.embed[1].title[3] = "Online"

\* C7: the listing GET / answers with has one entry per identifier in the
\* cache, none for an identifier that is not in it, and each entry's label is
\* the label formatEmbed gives the same cached record.
C7_ListingMatchesCache ==
  httpResponse.path = "/" =>
    LET listing == httpResponse.body.statuses
    IN  /\ httpResponse.status = 200
        /\ Len(listing) = Cardinality(DOMAIN statusCache.val)
        /\ \A serverId \in Ids :
             ObjHas(statusCache, serverId) <=>
               \E k \in DOMAIN listing : listing[k].serverName = NameOf(serverId)
        /\ \A k \in DOMAIN listing :
             \E serverId \in DOMAIN statusCache.val :
               LET status == statusCache.val[serverId]
               IN  /\ listing[k].serverName = status.serverName
                   /\ listing[k].status = formatEmbed(status.serverName, status).title[3]

\* GET / has listed both identifiers, one of them at the threshold
C7_Witness ==
  /\ httpResponse.path = "/"
  /\ Len(httpResponse.body.statuses) = Len(SERVER_IDS)
  /\ \E serverId \in Ids : statusCache.val[serverId].playerCount = 55
  /\ \E k \in DOMAIN httpResponse.body.statuses :
       httpResponse.body.statuses[k].status = "Seeding"

FailsNow(p) ==
  /\ updatePasses[p].pc \in {"send", "fetchMsg", "edit"}
  /\ Len(updatePasses'[p].ops) >= Len(updatePasses[p].ops)
  /\ updatePasses'[p].ops[Len(updatePasses[p].ops)].res = "fail"

\* after the failure pass p stands at the next identifier that has a cached
\* status, awaiting the operation issued for it, or is done if there is none
GoesOn(p) ==
  LET rest == {j \in (updatePasses[p].i + 1)..Len(SERVER_IDS) :
                 ObjHas(statusCache, SERVER_IDS[j])}
      after == updatePasses'[p]
  IN  IF rest = {}
      THEN after.pc = "done" /\ Len(after.ops) = Len(updatePasses[p].ops)
      ELSE /\ after.pc \in {"send", "fetchMsg"}
           /\ \A j \in rest : after.i <= j
           /\ after.i \in rest
           /\ Len(after.ops) = Len(updatePasses[p].ops) + 1
           /\ after.ops[Len(after.ops)].serverId = SERVER_IDS[after.i]
           /\ after.ops[Len(after.ops)].res = "pending"

\* C9: when a create, a fetch of the message or an edit fails in a pass, the
\* stored handles are unchanged, the pass issues nothing more for that
\* identifier, and it goes on with every remaining identifier.
C9_FailureSkipsIdentifier ==
  /\ [][\A p \in DOMAIN updatePasses :
          FailsNow(p) => (lastMessages' = lastMessages /\ GoesOn(p))]_vars
  /\ [](\A p \in DOMAIN updatePasses : \A serverId \in Ids :
          LET ops == OpsOf(p, serverId)
          IN  /\ \A k, l \in DOMAIN ops : ops[k].op = ops[l].op => k = l
              /\ \A k \in DOMAIN ops : ops[k].res = "fail" => k = Len(ops))

\* a pass failed on the first identifier and issued an operation for the second
C9_Witness ==
  \E p \in DOMAIN updatePasses :
    /\ \E k \in DOMAIN OpsOf(p, SERVER_IDS[1]) : OpsOf(p, SERVER_IDS[1])[k].res = "fail"
    /\ OpsOf(p, SERVER_IDS[2]) # <<>>

\* C10: before 'ready' no pass of either timer has begun, the cache, the
\* handles and the channel are empty, and a GET / is answered with an empty
\* listing.
C10_NothingBeforeReady ==
  ~ready =>
    /\ \A p \in DOMAIN fetchPasses : fetchPasses[p] = IdleFetchPass
    /\ \A p \in DOMAIN updatePasses : updatePasses[p] = IdleUpdatePass
    /\ statusCache = EmptyObject
    /\ lastMessages = EmptyObject
    /\ channelMessages = <<>>
    /\ httpResponse.path = "/" =>
         (httpResponse.status = 200 /\ httpResponse.body.statuses = <<>>)

\* GET / has been answered before 'ready'
C10_Witness ==
  /\ ~ready
  /\ httpResponse.path = "/"
  /\ httpResponse.status = 200

\* pass p issues a chat operation in this step
Issues(p) == Len(updatePasses'[p].ops) > Len(updatePasses[p].ops)

\* the index in SERVER_IDS at which pass p stands
Position(p) == IF updatePasses[p].pc = "idle" THEN 0 ELSE updatePasses[p].i

\* C11: a pass issues its chat operations one at a time and in the order of
\* SERVER_IDS: an operation is issued only when every earlier one of the pass
\* has settled, it is for the first identifier after the pass's position that
\* has a cached status (an edit: for the identifier just fetched), and never
\* for an identifier before an earlier operation's.  A pass that runs with no
\* other pass begun, finds a status for every identifier and no handle, and
\* whose operations all succeed has created exactly one message per
\* identifier, in the order of the list.
C11_ListOrder ==
  /\ [][\A p \in DOMAIN updatePasses :
          Issues(p) =>
            LET before == updatePasses[p].ops
                after == updatePasses'[p].ops
                new == after[Len(after)]
            IN  /\ Len(after) = Len(before) + 1
                /\ new.res = "pending"
                /\ \A k \in DOMAIN before : after[k].res # "pending"
                /\ \A k \in DOMAIN before :
                     IndexOf(before[k].serverId) <= IndexOf(new.serverId)
                /\ IF new.op = "edit"
                   THEN /\ IndexOf(new.serverId) = Position(p)
                        /\ after[Len(before)].op = "fetch"
                        /\ after[Len(before)].serverId = new.serverId
                   ELSE /\ IndexOf(new.serverId) > Position(p)
                        /\ ObjHas(statusCache, new.serverId)
                        /\ \A j \in (Position(p) + 1)..(IndexOf(new.serverId) - 1) :
                             ~ObjHas(statusCache, SERVER_IDS[j])
       ]_vars
  /\ [](\A p \in DOMAIN updatePasses :
          LET ops == updatePasses[p].ops
          IN  ( /\ Started(updatePasses) = {p}
                /\ updatePasses[p].pc = "done"
                /\ \A serverId \in Ids : OpsOf(p, serverId) # <<>>
                /\ \A k \in DOMAIN ops : ops[k].res = "ok" ) =>
              /\ Len(ops) = Len(SERVER_IDS)
              /\ \A k \in DOMAIN ops :
                   /\ ops[k].op = "create"
                   /\ ops[k].serverId = SERVER_IDS[k]
                   /\ ops[k].msg = k
              /\ Len(channelMessages) = Len(SERVER_IDS)
              /\ lastMessages.keys = SERVER_IDS
              /\ \A k \in DOMAIN SERVER_IDS : lastMessages.val[SERVER_IDS[k]].id = k)

\* the only pass begun has created the message of A and then the message of B
C11_Witness ==
  /\ Started(updatePasses) = {1}
  /\ updatePasses[1].pc = "done"
  /\ Len(updatePasses[1].ops) = 2
  /\ updatePasses[1].ops[1] = [op |-> "create", serverId |-> "A", msg |-> 1, res |-> "ok"]
  /\ updatePasses[1].ops[2] = [op |-> "create", serverId |-> "B", msg |-> 2, res |-> "ok"]
  /\ Len(channelMessages) = 2

\* the backoff value of the k-th wait of a call
Backoff(k) == DefaultDelay * 2 ^ (k - 1)

\* the k-th response of the call carries a Retry-After header
Hinted(f, k) == "retryAfter" \in DOMAIN f.responses[k]

\* C12 as stated: the wait that follows a 429 response is the Retry-After of
\* that response when it carries one, and the current backoff value otherwise.
C12_PrefersRetryHint ==
  \A k \in DOMAIN call.waits :
    call.waits[k] = IF Hinted(call, k)
                    THEN call.responses[k].retryAfter * 1000
                    ELSE Backoff(k)

\* C12: every 429 response received with retries remaining is followed by a
\* wait, and the k-th wait of a call is the current backoff value, 1000
\* doubled k - 1 times, whether or not the response carries a Retry-After.
C12_BackoffOnly ==
  /\ \A k \in DOMAIN call.responses :
       (call.responses[k].status = 429 /\ k <= DefaultRetries) => Len(call.waits) >= k
  /\ \A k \in DOMAIN call.waits :
       /\ call.responses[k].status = 429
       /\ call.waits[k] = Backoff(k)

\* a call has waited 2000 after a 429 response whose Retry-After is 5 seconds
C12_Witness ==
  /\ Len(call.waits) >= 2
  /\ Hinted(call, 2)
  /\ call.responses[2].retryAfter = 5
  /\ call.waits[2] = 2000

\* a 2xx response whose body lacks data, data.attributes or one of the fields
LacksField(r) ==
  /\ r.status = HttpOk
  /\ (r.data = null \/ ~(AttributeNames \subseteq DOMAIN r.data[1]))

\* C13: a 2xx response whose body lacks any of the expected fields ends the
\* call at once with null: it is the last response, no request follows it and
\* no record is returned.
C13_MissingFieldIsFailure ==
  \A k \in DOMAIN call.responses :
    LacksField(call.responses[k]) =>
      /\ call.pc = "returned"
      /\ call.result = null
      /\ Len(call.responses) = k
      /\ call.issued = k

\* C14: a response with a status other than 2xx and 429, or a transport error
\* without a response, ends the call at once with null: it is the last
\* response, no request follows it, and the only waits are those of the 429
\* responses before it.
C14_OtherFailureImmediate ==
  \A k \in DOMAIN call.responses :
    call.responses[k].status \notin {HttpOk, HttpTooManyRequests} =>
      /\ call.pc = "returned"
      /\ call.result = null
      /\ Len(call.responses) = k
      /\ call.issued = k
      /\ Len(call.waits) = k - 1

\* a call has returned null on a 500 after one 429, with retries remaining
C14_Witness ==
  /\ Statuses(call) = <<429, 500>>
  /\ call.pc = "returned"
  /\ call.result = null
  /\ call.retries = DefaultRetries - 1
  /\ call.waits = <<1000>>

\* C18: under every interleaving of the passes, a handle once stored for an
\* identifier stays the same handle, and an operation issued for an identifier
\* that has a handle is a fetch or an edit of that handle's message.
C18_HandleNeverReplaced ==
  [][ /\ \A serverId \in Ids :
           ObjHas(lastMessages, serverId) =>
             /\ ObjHas(lastMessages', serverId)
             /\ lastMessages'.val[serverId] = lastMessages.val[serverId]
      /\ \A p \in DOMAIN updatePasses :
           LET new == updatePasses'[p].ops[Len(updatePasses'[p].ops)]
           IN  (Issues(p) /\ ObjHas(lastMessages, new.serverId)) =>
                 /\ new.op \in {"fetch", "edit"}
                 /\ new.msg = lastMessages.val[new.serverId].id
    ]_vars

\* the identifiers that are keys of an object
Keys(o) == DOMAIN o.val

\* C19: in every state the identifiers with a handle are among the
\* identifiers with a cache entry, which are among SERVER_IDS, and no step
\* takes a key out of either map.
C19_KeySubsets ==
  /\ [](/\ Keys(lastMessages) \subseteq Keys(statusCache)
        /\ Keys(statusCache) \subseteq Ids
        /\ Keys(lastMessages) = {lastMessages.keys[k] : k \in DOMAIN lastMessages.keys}
        /\ Keys(statusCache) = {statusCache.keys[k] : k \in DOMAIN statusCache.keys})
  /\ [][ /\ Keys(statusCache) \subseteq Keys(statusCache')
         /\ Keys(lastMessages) \subseteq Keys(lastMessages') ]_vars

\* both identifiers are cached and only the second has a handle
C19_Witness ==
  /\ Keys(statusCache) = Ids
  /\ lastMessages.keys = <<SERVER_IDS[2]>>

\* pass p of updateChannel takes a step
UpdateSteps(p) == updatePasses'[p] # updatePasses[p]

\* C20: while the channel is not in the client's cache, every pass of
\* updateChannel ends at once with no chat operation, no handle is stored and
\* no message exists; a step of updateChannel never changes the cache; a
\* fetch that returns a record still puts it in the cache, and GET / is
\* answered from the cache as it then is.
C20_NoChannel ==
  /\ [](~channelCached =>
          /\ \A p \in DOMAIN updatePasses :
               /\ updatePasses[p].pc \in {"idle", "done"}
               /\ updatePasses[p].ops = <<>>
          /\ lastMessages = EmptyObject
          /\ channelMessages = <<>>
          /\ httpResponse.path = "/" => httpResponse = Route("/", statusCache))
  /\ [][ /\ (\E p \in DOMAIN updatePasses : UpdateSteps(p)) =>
              (statusCache' = statusCache /\ (~channelCached => lastMessages' = lastMessages))
         /\ \A p \in DOMAIN fetchPasses : \A serverId \in Ids :
              (~channelCached /\ Completes(p, serverId) /\ console'.level # "error") =>
                ObjHas(statusCache', serverId)
       ]_vars

\* without the channel a pass of updateChannel has ended, both identifiers
\* have been fetched, and GET / lists both
C20_Witness ==
  /\ ~channelCached
  /\ \E p \in DOMAIN updatePasses : updatePasses[p].pc = "done"
  /\ Keys(statusCache) = Ids
  /\ httpResponse.path = "/"
  /\ Len(httpResponse.body.statuses) = Len(SERVER_IDS)

\* C15: in every pass an edit comes right after a fetch of the same message
\* for the same identifier that succeeded, and a fetch that failed is followed
\* by no operation for that identifier.
C15_EditAfterFetch ==
  \A p \in DOMAIN updatePasses :
    LET ops == updatePasses[p].ops
    IN  \A k \in DOMAIN ops :
          /\ ops[k].op = "edit" =>
               /\ k > 1
               /\ ops[k - 1].op = "fetch"
               /\ ops[k - 1].serverId = ops[k].serverId
               /\ ops[k - 1].msg = ops[k].msg
               /\ ops[k - 1].res = "ok"
          /\ (ops[k].op = "fetch" /\ ops[k].res = "fail") =>
               (k = Len(ops) \/ ops[k + 1].serverId # ops[k].serverId)

\* the ticks of the refresh timer that have fired
Ticks == Cardinality(Started(fetchPasses))

\* pass p makes the embed of an identifier in this step (line 121) and issues
\* the fetch or the send that follows it
Renders(p) ==
  /\ Issues(p)
  /\ updatePasses'[p].ops[Len(updatePasses'[p].ops)].op \in {"create", "fetch"}

\* the identifier pass p stands at after this step
Rendered(p) == updatePasses'[p].ops[Len(updatePasses'[p].ops)].serverId

\* C16 as stated: the record a pass renders was stored within the last period
\* of the refresh timer.  Two ticks of that timer are at least a period apart,
\* so a record stored before the last two ticks is older than a period.
C16_FreshWithinPeriod ==
  [][\A p \in DOMAIN updatePasses :
       Renders(p) => Ticks - stamps.entry[Rendered(p)].ticks < 2]_vars

\* C16: the record a pass renders for an identifier is the cache entry of that
\* moment, stored by a fetch at some tick of the refresh timer that has
\* fired, however many ticks ago.
C16_RendersCurrentEntry ==
  [][\A p \in DOMAIN updatePasses :
       Renders(p) =>
         LET status == statusCache.val[Rendered(p)]
         IN  /\ updatePasses'[p].embed = Some(formatEmbed(status.serverName, status))
             /\ stamps.entry[Rendered(p)].ticks \in 1..Ticks]_vars

\* a pass has rendered, and is sending, a record stored two ticks of the
\* refresh timer ago
C16_Witness ==
  \E p \in DOMAIN updatePasses :
    /\ updatePasses[p].pc = "send"
    /\ Ticks - stamps.entry[SERVER_IDS[updatePasses[p].i]].ticks >= 2
    /\ updatePasses[p].embed =
         Some(formatEmbed(statusCache.val[SERVER_IDS[updatePasses[p].i]].serverName,
                          statusCache.val[SERVER_IDS[updatePasses[p].i]]))

\* C17: the record of a request issued earlier never replaces, in the cache,
\* the record of a request issued later.
C17_NewestRecordStays ==
  [][\A serverId \in Ids :
       stamps'.entry[serverId].request >= stamps.entry[serverId].request]_vars

====
